---- MODULE Spec2Model ----
(***************************************************************************)
(* Conversation memory and asynchronous orchestration of xi9d/rustai.      *)
(*                                                                         *)
(* The repository holds two copies of the orchestrator: the modular one    *)
(* (src/ui.rs with rag.rs, analytics.rs, ollama.rs, models.rs) and the     *)
(* monolithic one (src/main.rs).  The variable `build` says which of the   *)
(* two is running; both share the store code (rag.rs and its copy in       *)
(* main.rs are line for line the same).                                    *)
(*                                                                         *)
(* Worker tasks are sequences of steps cut at their await points; the      *)
(* interactive loop is one step per handler.  External results (the model  *)
(* server, SQLite, the filesystem) are nondeterministic choices.           *)
(***************************************************************************)
EXTENDS Integers, Sequences, FiniteSets, TLC

VARIABLES
    build,              \* "ui" (ui.rs) or "main" (main.rs)
    limits,             \* what a run is cut off at: tasks spawned, input changes
    rag_system,         \* Option<RagSystem>: TRUE = Some
    enable_rag,
    input_text,
    is_loading,
    chat_messages,      \* ui.rs only
    output_text,        \* main.rs only
    analytics,
    rag_suggestions,
    pending_operations, \* the Vec behind the mutex
    lock,               \* 0 = free, otherwise the task that holds the guard
    tasks,              \* spawned worker tasks, by spawn order
    LAST_INPUT,         \* static mut in the debounce
    UPDATE_COUNTER,     \* static mut in the debounce
    conversations,      \* rows of the conversations table, by id
    files,              \* mirror files in save_directory
    schema,             \* the conversations table exists in the database file
    now,                \* last second Local::now() returned
    pushed,             \* history: every item ever pushed, in push order
    applied,            \* history: every item ever applied by a drain
    last_frame,         \* "none" until the first frame; then history: "skipped" if
                        \* the last frame found the lock held and items queued,
                        \* "caught_up" if it drained after such a frame
    prev_input,         \* history: input_text as the previous frame saw it
    changes,            \* history: frames that saw a changed input
    seen,               \* history: the values those frames saw
    call,               \* the last direct call of a store function: its arguments
    ret                 \* and what it returned

vars == <<build, limits, rag_system, enable_rag, input_text, is_loading, chat_messages,
          output_text, analytics, rag_suggestions, pending_operations, lock,
          tasks, LAST_INPUT, UPDATE_COUNTER, conversations, files, now,
          pushed, applied, last_frame, prev_input, changes, seen,
          schema, call, ret>>

uiState == <<input_text, is_loading, chat_messages, output_text, analytics,
             rag_suggestions, enable_rag>>
storeState == <<conversations, files, now>>
debounceState == <<LAST_INPUT, UPDATE_COUNTER>>
frameHistory == <<last_frame, prev_input, changes, seen>>
lastCall == <<call, ret>>

----------------------------------------------------------------------------
(* Bounds of the model *)

MaxTasks == 2        \* worker tasks spawned in one run
MaxChanges == 5      \* frames that see a changed input
MaxRows == 4         \* rows of a log left by an earlier run
MaxStored == 2       \* exchanges stored over all runs together
MaxLimit == 3        \* the limit passed to a direct call
MaxBusyTasks == 3    \* worker tasks spawned in a run of SpecBusy
MaxTyped == 10       \* frames that see a changed input in a run of SpecTyping

(* Program constants *)

RagMinLen == 10      \* input_text.len() <= 10: no suggestion refresh
DebounceEvery == 5   \* UPDATE_COUNTER % 5 == 0
SuggestLimit == 3    \* find_similar_responses(&prompt, 3)
KeywordLimit == 3    \* split_whitespace().take(3)
ContextLimit == 2    \* suggestions.iter().take(2)
SecondsPerDay == 86400   \* DATE(timestamp): the calendar day of a timestamp

----------------------------------------------------------------------------
(* Texts.  A text is known by its identity, its length in bytes and        *)
(* whether trim() leaves nothing; a text that can be stored or searched    *)
(* also by its words, each a sequence of one-character strings.            *)

Hi == <<"h", "i">>
Letter == <<"a", "b", "c", "d", "e", "f", "g", "h", "i", "j", "k", "l", "m">>

\* the word only the k-th long input has, long enough to pass RagMinLen
Own(k) == [i \in 1..(RagMinLen - 3 + k) |-> IF i = 1 THEN Letter[k] ELSE "x"]

EmptyText == [id |-> 0, len |-> 0, blank |-> TRUE, words |-> <<>>]
BlankText == [id |-> 1, len |-> 3, blank |-> TRUE, words |-> <<>>]
ShortText == [id |-> 2, len |-> 2, blank |-> FALSE, words |-> <<Hi>>]
LongText(k) == [id |-> 2 + k, len |-> RagMinLen + k, blank |-> FALSE,
                words |-> <<Hi, Own(k)>>]
NoText == [id |-> -1, len |-> 0, blank |-> TRUE]    \* Option::None

LongTexts == {LongText(k) : k \in 1..(limits.changes + 1)}

\* texts the program itself writes
GeneratingText == [id |-> -2, len |-> 22, blank |-> FALSE]   \* main.rs 355
ErrorText(e) ==
    [id |-> CASE e = "request_failed" -> -3      \* ollama.rs 36, main.rs 403
              [] e = "parse_failed" -> -4        \* ollama.rs 41, main.rs 400
              [] e = "RAG error" -> -5           \* ui.rs 213
              [] e = "Analytics error" -> -6,    \* ui.rs 234
     len |-> 20, blank |-> FALSE]

TrimIsEmpty(t) == t.blank

----------------------------------------------------------------------------
(* models.rs: PendingOperation.  `by` records the task that pushed it.     *)

Response(s, t) == [op |-> "Response", arg |-> s, by |-> t]
AnalyticsOp(a, t) == [op |-> "Analytics", arg |-> a, by |-> t]
RagSuggestions(s, t) == [op |-> "RagSuggestions", arg |-> [rows |-> s], by |-> t]
LoadingComplete(t) == [op |-> "LoadingComplete", arg |-> NoText, by |-> t]
Error(e, t) == [op |-> "Error", arg |-> ErrorText(e), by |-> t]

\* SQLite's AVG is a REAL, read as f64: the value sum / count in lowest terms
RECURSIVE GCD(_, _)
GCD(a, b) == IF b = 0 THEN a ELSE GCD(b, a % b)
Ratio(sum, count) ==
    LET g == GCD(sum, count) IN [num |-> sum \div g, den |-> count \div g]

\* models.rs 28-37: #[derive(Default)], every count 0, the f64 0.0, the
\* String empty (cache_hits and cache_misses are never written)
DefaultAnalytics ==
    [total_requests |-> 0, avg_response_time |-> Ratio(0, 1),
     most_used_model |-> "", total_tokens_approx |-> 0, sessions_today |-> 0]

----------------------------------------------------------------------------
(* Words of a text, as split_whitespace() yields them.  Every non-blank    *)
(* typed input starts with the same word; a long input adds a word of its  *)
(* own.  The model server's reply has one word no input has.               *)

ReplyText == [id |-> 100, len |-> 5, blank |-> FALSE,
              words |-> <<(<<"r", "e", "p", "l", "y">>)>>]

Words(t) == t.words

\* the text as SQLite sees the column: the words, one space between them
RECURSIVE Chars(_)
Chars(ws) ==
    IF ws = <<>> THEN <<>>
    ELSE IF Len(ws) = 1 THEN ws[1]
    ELSE ws[1] \o <<" ">> \o Chars(Tail(ws))

Take(s, n) == IF Len(s) <= n THEN s ELSE SubSeq(s, 1, n)
Range(s) == {s[i] : i \in DOMAIN s}

----------------------------------------------------------------------------
(* rag.rs: the store *)

\* ui.rs 82: model_name: "deepseek-r1:7b"
ModelName == "deepseek-r1:7b"

\* ui.rs 138: start_time.elapsed().as_millis(), the times a run draws
ResponseTimes == {250}

NoEntry == [id |-> 0, timestamp |-> [sec |-> 0, tick |-> 0], prompt |-> NoText,
            response |-> NoText, model_used |-> "", response_time_ms |-> 0,
            by |-> 0]

\* ui.rs 142-150: the entry a chat task builds, id: 0, timestamp: Local::now()
NewEntry(ts, prompt, ms, t) ==
    [id |-> 0, timestamp |-> ts, prompt |-> prompt, response |-> ReplyText,
     model_used |-> ModelName, response_time_ms |-> ms, by |-> t]

InsertRowKeepsId(rows, entry) ==
    Append(rows, [id |-> entry.id, timestamp |-> entry.timestamp,
                  prompt |-> entry.prompt, response |-> entry.response,
                  model_used |-> entry.model_used,
                  response_time_ms |-> entry.response_time_ms,
                  by |-> entry.by])

\* rag.rs 68-79: INSERT; the id is AUTOINCREMENT, the id of the entry (0) is not stored
InsertRow(rows, entry) ==
    Append(rows, [id |-> Len(rows) + 1, timestamp |-> entry.timestamp,
                  prompt |-> entry.prompt, response |-> entry.response,
                  model_used |-> entry.model_used,
                  response_time_ms |-> entry.response_time_ms,
                  by |-> entry.by])

\* rag.rs 91: response_%Y%m%d_%H%M%S.txt, the timestamp to the second
FileName(entry) == entry.timestamp.sec

\* rag.rs 90-103: std::fs::write creates or overwrites
WriteFile(fs, entry) ==
    {f \in fs : f.name # FileName(entry)}
        \cup {[name |-> FileName(entry), by |-> entry.by]}

\* rag.rs 114: prompt.split_whitespace().take(3)
Keywords(prompt) == Take(Words(prompt), KeywordLimit)

\* SQLite's LIKE compares ASCII letters without regard to case
UpperCase == <<"A", "B", "C", "D", "E", "F", "G", "H", "I", "J", "K", "L", "M",
               "N", "O", "P", "Q", "R", "S", "T", "U", "V", "W", "X", "Y", "Z">>
LowerCase == <<"a", "b", "c", "d", "e", "f", "g", "h", "i", "j", "k", "l", "m",
               "n", "o", "p", "q", "r", "s", "t", "u", "v", "w", "x", "y", "z">>
Fold(c) ==
    IF \E i \in DOMAIN UpperCase : UpperCase[i] = c
    THEN LowerCase[CHOOSE i \in DOMAIN UpperCase : UpperCase[i] = c]
    ELSE c

\* column LIKE '%word%': the word somewhere in the column, an underscore
\* of the word standing for any one character
LikePattern(column, word) ==
    \E p \in 1..(Len(column) - Len(word) + 1) :
        \A i \in DOMAIN word :
            word[i] = "_" \/ Fold(word[i]) = Fold(column[p + i - 1])

\* rag.rs 116: prompt LIKE '%word%' OR response LIKE '%word%'
Like(row, word) ==
    \/ LikePattern(Chars(Words(row.prompt)), word)
    \/ LikePattern(Chars(Words(row.response)), word)

\* rag.rs 116: the word is pasted into the statement between quotes; an
\* apostrophe in it ends the literal early and the statement does not parse
BreaksStatement(word) == \E i \in DOMAIN word : word[i] = "'"

Newer(a, b) == a.timestamp.tick > b.timestamp.tick

\* ORDER BY timestamp DESC
RECURSIVE NewestFirst(_)
NewestFirst(S) ==
    IF S = {} THEN <<>>
    ELSE LET top == CHOOSE r \in S : \A o \in S \ {r} : Newer(r, o)
         IN <<top>> \o NewestFirst(S \ {top})

\* rag.rs 105-157: Err when SQLite refuses (also the statement with no keyword,
\* "WHERE  ORDER BY", and the one with an apostrophe in a keyword, which do
\* not parse), else the matching rows
find_similar_responses(rows, prompt, limit, storage_ok) ==
    LET keywords == Keywords(prompt)
        hits == {rows[i] : i \in {j \in DOMAIN rows :
                      \E k \in DOMAIN keywords : Like(rows[j], keywords[k])}}
    IN IF \/ ~storage_ok
          \/ keywords = <<>>
          \/ \E k \in DOMAIN keywords : BreaksStatement(keywords[k])
       THEN [ok |-> FALSE, rows |-> <<>>]
       ELSE [ok |-> TRUE, rows |-> Take(NewestFirst(hits), limit)]

\* DATE(timestamp), and Local::now().format("%Y-%m-%d")
DateOf(ts) == ts.sec \div SecondsPerDay

get_total_requests_today(rows) ==
    Cardinality({i \in DOMAIN rows : DateOf(rows[i].timestamp) = DateOf(now)})

\* analytics.rs 45-49: SELECT COUNT(*)
get_total_requests(rows) == Len(rows)

\* analytics.rs 71-78: SELECT COUNT(DISTINCT DATE(timestamp)) .. WHERE
\* DATE(timestamp) = today
get_sessions_today(rows, today) ==
    Cardinality({DateOf(rows[i].timestamp) :
                    i \in {j \in DOMAIN rows : DateOf(rows[j].timestamp) = today}})

RECURSIVE Sum(_)
Sum(ns) == IF ns = <<>> THEN 0 ELSE Head(ns) + Sum(Tail(ns))

\* analytics.rs 51-58: SELECT AVG(response_time_ms); AVG over no row is
\* NULL, read as None, and unwrap_or(0.0)
get_avg_response_time(rows) ==
    IF rows = <<>> THEN Ratio(0, 1)
    ELSE Ratio(Sum([i \in DOMAIN rows |-> rows[i].response_time_ms]), Len(rows))

ModelCount(rows, m) == Cardinality({i \in DOMAIN rows : rows[i].model_used = m})

LeastUsedModels(rows) ==
    {m \in {rows[i].model_used : i \in DOMAIN rows} :
        \A i \in DOMAIN rows : ModelCount(rows, m) <= ModelCount(rows, rows[i].model_used)}

\* GROUP BY model_used ORDER BY count DESC LIMIT 1: a group of the largest
\* count, SQLite chooses among equal counts
MostUsedModels(rows) ==
    {m \in {rows[i].model_used : i \in DOMAIN rows} :
        \A i \in DOMAIN rows : ModelCount(rows, rows[i].model_used) <= ModelCount(rows, m)}

\* what stmt.query_row hands back for that statement: the row, or an Err
\* (QueryReturnedNoRows on an empty table, or the step failed)
QueryRowOutcomes(rows) ==
    {[ok |-> FALSE, model |-> ""]}
        \cup {[ok |-> TRUE, model |-> m] : m \in MostUsedModels(rows)}

\* analytics.rs 60-69: .unwrap_or_default() turns every Err of query_row
\* into the empty String
get_most_used_model(row) == IF row.ok THEN row.model ELSE ""

\* LENGTH(prompt) + LENGTH(response), in characters
CharsOf(row) == row.prompt.len + row.response.len

get_token_count_per_entry(rows) ==
    Sum([i \in DOMAIN rows |-> CharsOf(rows[i]) \div 4])

\* analytics.rs 80-84: SELECT SUM(LENGTH(prompt) + LENGTH(response)); the sum
\* over no row is NULL, unwrap_or(0); then `as usize / 4`
get_token_count(rows) == Sum([i \in DOMAIN rows |-> CharsOf(rows[i])]) \div 4

\* analytics.rs 24-40: the statements of one refresh, in the order they run
SubQueries == <<"total_requests", "avg_response_time", "most_used_model",
                "sessions_today", "total_tokens_approx">>

\* one statement run against the table as it is now; `row` is what
\* query_row returns for the most-used-model statement
RunQuery(a, q, rows, row) ==
    CASE q = "total_requests" ->
            [a EXCEPT !.total_requests = get_total_requests(rows)]
      [] q = "avg_response_time" ->
            [a EXCEPT !.avg_response_time = get_avg_response_time(rows)]
      [] q = "most_used_model" ->
            [a EXCEPT !.most_used_model = get_most_used_model(row)]
      [] q = "sessions_today" ->
            [a EXCEPT !.sessions_today = get_sessions_today(rows, DateOf(now))]
      [] q = "total_tokens_approx" ->
            [a EXCEPT !.total_tokens_approx = get_token_count(rows)]

RECURSIVE RunQueries(_, _, _, _)
RunQueries(a, qs, rows, row) ==
    IF qs = <<>> THEN a
    ELSE RunQueries(RunQuery(a, Head(qs), rows, row), Tail(qs), rows, row)

\* analytics.rs 17-43 with no write in between: Connection::open, the
\* five statements, Ok(analytics)
get_analytics(rows, storage_ok, row) ==
    IF ~storage_ok THEN [ok |-> FALSE, analytics |-> DefaultAnalytics]
    ELSE [ok |-> TRUE,
          analytics |-> RunQueries(DefaultAnalytics, SubQueries, rows, row)]

\* A formatted String: its parts, literal text or a text put in a {}
Lit(str) == [lit |-> str, text |-> NoText]
Txt(t) == [lit |-> "", text |-> t]

\* rag.rs 167: format!("Previous context:\nQ: {}\nA: {}\n", ..)
ContextBlock(entry) ==
    <<Lit("Previous context:\nQ: "), Txt(entry.prompt), Lit("\nA: "),
      Txt(entry.response), Lit("\n")>>

\* .collect::<Vec<_>>().join("\n")
RECURSIVE JoinBlocks(_)
JoinBlocks(blocks) ==
    IF blocks = <<>> THEN <<>>
    ELSE IF Len(blocks) = 1 THEN blocks[1]
    ELSE blocks[1] \o <<Lit("\n")>> \o JoinBlocks(Tail(blocks))

create_rag_context_all(suggestions, current_prompt) ==
    IF suggestions = <<>> THEN <<Txt(current_prompt)>>
    ELSE JoinBlocks([i \in DOMAIN suggestions |-> ContextBlock(suggestions[i])])
            \o <<Lit("\n\nCurrent question: "), Txt(current_prompt)>>

\* rag.rs 159-172 (main.rs 341-348 does the same inline)
create_rag_context(suggestions, current_prompt) ==
    IF suggestions = <<>> THEN <<Txt(current_prompt)>>
    ELSE LET used == Take(suggestions, ContextLimit)
         IN JoinBlocks([i \in DOMAIN used |-> ContextBlock(used[i])])
               \o <<Lit("\n\nCurrent question: "), Txt(current_prompt)>>

\* no store function has been called directly
NoCall == [fn |-> "none"]

----------------------------------------------------------------------------
(* Worker tasks *)

Task(kind, prompt, rag) ==
    [kind |-> kind, pc |-> IF kind = "chat" THEN "generate" ELSE "query",
     prompt |-> prompt, rag |-> rag, entry |-> NoEntry, saved |-> "none",
     result |-> "pending", step |-> 1, snapshot |-> DefaultAnalytics,
     row |-> [ok |-> FALSE, model |-> ""], items |-> <<>>]

TaskIds == DOMAIN tasks
Spawned(kind) == {t \in TaskIds : tasks[t].kind = kind}

\* ollama.rs 19-44: Ok(response), or the send() or the json() failed
GenerateOutcomes == {"ok", "request_failed", "parse_failed"}

SetTask(t, new) == [tasks EXCEPT ![t] = new]

\* ui.rs 157-159 (main.rs 409-410): what the chat task pushes on Ok
ChatItemsOk(t) == <<Response(ReplyText, t), LoadingComplete(t)>>

ChatItemsErrNoMarker(e, t) == <<Error(e, t)>>

\* ui.rs 162-164: what it pushes on Err
ChatItemsErr(e, t) == <<Error(e, t), LoadingComplete(t)>>

ChatItemsErrMainNoMarker(e, t) == <<Response(ErrorText(e), t)>>

\* main.rs 400-410: the monolith posts the failure as the response text
ChatItemsErrMain(e, t) == <<Response(ErrorText(e), t), LoadingComplete(t)>>

\* ui.rs 134-166: the chat task up to its first lock().await.  On Ok the
\* entry is built (timestamp: Local::now(), this second or a later one)
\* and saved when a store is there; on Err nothing is saved.
send_task_generate(t) ==
    /\ build = "ui"
    /\ tasks[t].kind = "chat" /\ tasks[t].pc = "generate"
    /\ \E r \in GenerateOutcomes, later \in BOOLEAN, ms \in ResponseTimes :
        LET ts == [sec |-> now.sec + (IF later THEN 1 ELSE 0), tick |-> now.tick + 1]
        IN IF r = "ok"
           THEN IF tasks[t].rag
                THEN /\ tasks' = SetTask(t, [tasks[t] EXCEPT
                            !.pc = "save_insert", !.result = r,
                            !.entry = NewEntry(ts, tasks[t].prompt, ms, t),
                            !.items = ChatItemsOk(t)])
                     /\ now' = ts
                ELSE /\ ~later
                     /\ tasks' = SetTask(t, [tasks[t] EXCEPT
                            !.pc = "lock", !.result = r,
                            !.items = ChatItemsOk(t)])
                     /\ now' = now
           ELSE /\ ~later
                /\ tasks' = SetTask(t, [tasks[t] EXCEPT
                       !.pc = "lock", !.result = r,
                       !.items = ChatItemsErr(r, t)])
                /\ now' = now
    /\ UNCHANGED <<schema, lastCall, build, limits, rag_system, uiState, pending_operations, lock,
                   debounceState, conversations, files, pushed, applied,
                   frameHistory>>

\* main.rs 368-404: the same task in the monolith; a failure becomes the
\* text of a Response
ask_task_generate(t) ==
    /\ build = "main"
    /\ tasks[t].kind = "chat" /\ tasks[t].pc = "generate"
    /\ \E r \in GenerateOutcomes, later \in BOOLEAN, ms \in ResponseTimes :
        LET ts == [sec |-> now.sec + (IF later THEN 1 ELSE 0), tick |-> now.tick + 1]
        IN IF r = "ok"
           THEN IF tasks[t].rag
                THEN /\ tasks' = SetTask(t, [tasks[t] EXCEPT
                            !.pc = "save_insert", !.result = r,
                            !.entry = NewEntry(ts, tasks[t].prompt, ms, t),
                            !.items = ChatItemsOk(t)])
                     /\ now' = ts
                ELSE /\ ~later
                     /\ tasks' = SetTask(t, [tasks[t] EXCEPT
                            !.pc = "lock", !.result = r,
                            !.items = ChatItemsOk(t)])
                     /\ now' = now
           ELSE /\ ~later
                /\ tasks' = SetTask(t, [tasks[t] EXCEPT
                       !.pc = "lock", !.result = r,
                       !.items = ChatItemsErrMain(r, t)])
                /\ now' = now
    /\ UNCHANGED <<schema, lastCall, build, limits, rag_system, uiState, pending_operations, lock,
                   debounceState, conversations, files, pushed, applied,
                   frameHistory>>

save_conversation_mirror_first(t) ==
    /\ tasks[t].kind = "chat" /\ tasks[t].pc = "save_insert"
    /\ files' = WriteFile(files, tasks[t].entry)
    /\ \E ok \in BOOLEAN :
        IF ok
        THEN /\ conversations' = InsertRow(conversations, tasks[t].entry)
             /\ tasks' = SetTask(t, [tasks[t] EXCEPT !.pc = "lock", !.saved = "ok"])
        ELSE /\ conversations' = conversations
             /\ tasks' = SetTask(t, [tasks[t] EXCEPT !.pc = "lock", !.saved = "err"])
    /\ UNCHANGED <<schema, lastCall, build, limits, rag_system, uiState, pending_operations,
                   lock, debounceState, now, pushed, applied, frameHistory>>

\* rag.rs 66-79: Connection::open and the INSERT; `?` returns the error
\* before the mirror file is touched.  The caller (ui.rs 152-154) prints
\* the error and goes on to post the response.
save_conversation_insert(t) ==
    /\ tasks[t].kind = "chat" /\ tasks[t].pc = "save_insert"
    /\ \E ok \in BOOLEAN :
        IF ok
        THEN /\ conversations' = InsertRow(conversations, tasks[t].entry)
             /\ tasks' = SetTask(t, [tasks[t] EXCEPT !.pc = "save_mirror"])
        ELSE /\ conversations' = conversations
             /\ tasks' = SetTask(t, [tasks[t] EXCEPT !.pc = "lock", !.saved = "err"])
    /\ UNCHANGED <<schema, lastCall, build, limits, rag_system, uiState, pending_operations, lock,
                   debounceState, files, now, pushed, applied, frameHistory>>

\* rag.rs 82, 90-103: the mirror file, after the row
save_as_text_file(t) ==
    /\ tasks[t].kind = "chat" /\ tasks[t].pc = "save_mirror"
    /\ \E ok \in BOOLEAN :
        IF ok
        THEN /\ files' = WriteFile(files, tasks[t].entry)
             /\ tasks' = SetTask(t, [tasks[t] EXCEPT !.pc = "lock", !.saved = "ok"])
        ELSE /\ files' = files
             /\ tasks' = SetTask(t, [tasks[t] EXCEPT !.pc = "lock", !.saved = "err"])
    /\ UNCHANGED <<schema, lastCall, build, limits, rag_system, uiState, pending_operations, lock,
                   debounceState, conversations, now, pushed, applied,
                   frameHistory>>

\* ui.rs 205-215 (main.rs 427-437): the suggestion task up to its lock().await
rag_task_query(t) ==
    /\ tasks[t].kind = "rag" /\ tasks[t].pc = "query"
    /\ \E storage_ok \in BOOLEAN :
        LET r == find_similar_responses(conversations, tasks[t].prompt,
                                        SuggestLimit, storage_ok)
        IN tasks' = SetTask(t, [tasks[t] EXCEPT
               !.pc = "lock",
               !.result = IF r.ok THEN "ok" ELSE "err",
               !.items = IF r.ok THEN <<RagSuggestions(r.rows, t)>>
                         ELSE <<Error("RAG error", t)>>])
    /\ UNCHANGED <<schema, lastCall, build, limits, rag_system, uiState, pending_operations, lock,
                   debounceState, storeState, pushed, applied, frameHistory>>

analytics_task_query_writes(t) ==
    /\ tasks[t].kind = "analytics" /\ tasks[t].pc = "query"
    /\ conversations' = InsertRow(conversations, NoEntry)
    /\ tasks' = SetTask(t, [tasks[t] EXCEPT
           !.pc = "lock", !.result = "ok",
           !.items = <<AnalyticsOp(get_analytics(conversations, TRUE,
                           [ok |-> FALSE, model |-> ""]).analytics, t)>>])
    /\ UNCHANGED <<schema, lastCall, build, limits, rag_system, uiState, pending_operations,
                   lock, debounceState, files, now, pushed, applied, frameHistory>>

\* what one statement of the refresh leaves the task with
AfterStatement(t, storage_ok, row) ==
    LET a == RunQuery(tasks[t].snapshot, SubQueries[tasks[t].step],
                      conversations, row)
    IN IF ~storage_ok
       THEN [tasks[t] EXCEPT !.pc = "lock", !.result = "err",
                             !.items = <<Error("Analytics error", t)>>]
       ELSE IF tasks[t].step < Len(SubQueries)
       THEN [tasks[t] EXCEPT !.step = @ + 1, !.snapshot = a,
                !.row = IF SubQueries[tasks[t].step] = "most_used_model"
                        THEN row ELSE @]
       ELSE [tasks[t] EXCEPT !.pc = "lock", !.result = "ok", !.snapshot = a,
                             !.items = <<AnalyticsOp(a, t)>>]

get_analytics_statement_skips(t) ==
    /\ tasks[t].kind = "analytics" /\ tasks[t].pc = "query"
    /\ \E storage_ok \in BOOLEAN, row \in QueryRowOutcomes(conversations) :
        tasks' = SetTask(t,
            IF storage_ok /\ tasks[t].step = 2
            THEN [tasks[t] EXCEPT !.step = @ + 1,
                     !.snapshot = [@ EXCEPT !.avg_response_time =
                                       Ratio(0, 1)]]
            ELSE AfterStatement(t, storage_ok, row))
    /\ UNCHANGED <<schema, lastCall, build, limits, rag_system, uiState, pending_operations, lock,
                   debounceState, storeState, pushed, applied, frameHistory>>

\* analytics.rs 24-40 (main.rs 224-256): the next statement of the refresh,
\* run against the table as it is at that moment.  The five statements run
\* on a blocking thread over one connection with no transaction around
\* them, so the INSERT of a chat task can land between two of them.  A
\* statement that fails returns the Err through `?`.
get_analytics_statement(t) ==
    /\ tasks[t].kind = "analytics" /\ tasks[t].pc = "query"
    /\ \E storage_ok \in BOOLEAN, row \in QueryRowOutcomes(conversations) :
        tasks' = SetTask(t, AfterStatement(t, storage_ok, row))
    /\ UNCHANGED <<schema, lastCall, build, limits, rag_system, uiState, pending_operations, lock,
                   debounceState, storeState, pushed, applied, frameHistory>>

\* ui.rs 226-236 (main.rs 447-457): the analytics task up to its
\* lock().await, when nothing is stored while get_analytics runs
analytics_task_query(t) ==
    /\ tasks[t].kind = "analytics" /\ tasks[t].pc = "query" /\ tasks[t].step = 1
    /\ \E storage_ok \in BOOLEAN, row \in QueryRowOutcomes(conversations) :
        LET r == get_analytics(conversations, storage_ok, row)
        IN tasks' = SetTask(t, [tasks[t] EXCEPT
               !.pc = "lock",
               !.result = IF r.ok THEN "ok" ELSE "err",
               !.snapshot = r.analytics,
               !.row = IF r.ok THEN row ELSE @,
               !.items = IF r.ok THEN <<AnalyticsOp(r.analytics, t)>>
                         ELSE <<Error("Analytics error", t)>>])
    /\ UNCHANGED <<schema, lastCall, build, limits, rag_system, uiState, pending_operations, lock,
                   debounceState, storeState, pushed, applied, frameHistory>>

\* pending_ops.lock().await returns: the task holds the guard
task_lock(t) ==
    /\ tasks[t].pc = "lock"
    /\ lock = 0
    /\ lock' = t
    /\ tasks' = SetTask(t, [tasks[t] EXCEPT !.pc = "held"])
    /\ UNCHANGED <<schema, lastCall, build, limits, rag_system, uiState, pending_operations,
                   debounceState, storeState, pushed, applied, frameHistory>>

task_push_keeps_guard(t) ==
    /\ tasks[t].pc = "held"
    /\ lock = t
    /\ pending_operations' = pending_operations \o tasks[t].items
    /\ pushed' = pushed \o tasks[t].items
    /\ tasks' = SetTask(t, [tasks[t] EXCEPT !.pc = "done"])
    /\ UNCHANGED <<schema, lastCall, build, limits, rag_system, uiState, debounceState,
                   storeState, applied, frameHistory, lock>>

\* ops.push(..) once or twice, then the guard goes out of scope; nothing
\* awaits in between
task_push(t) ==
    /\ tasks[t].pc = "held"
    /\ lock = t
    /\ pending_operations' = pending_operations \o tasks[t].items
    /\ pushed' = pushed \o tasks[t].items
    /\ lock' = 0
    /\ tasks' = SetTask(t, [tasks[t] EXCEPT !.pc = "done"])
    /\ UNCHANGED <<schema, lastCall, build, limits, rag_system, uiState, debounceState, storeState,
                   applied, frameHistory>>

----------------------------------------------------------------------------
(* The interactive loop *)

Spawn(ts, kind, prompt) == Append(ts, Task(kind, prompt, rag_system))

\* the debounce spawns only while the run's budget of tasks lasts
SpawnRag(ts, prompt) == IF Len(ts) < limits.tasks THEN Spawn(ts, "rag", prompt) ELSE ts

DrainKeepsQueue(ops) == [taken |-> ops, left |-> ops]

DrainAllButLast(ops) ==
    IF ops = <<>> THEN [taken |-> <<>>, left |-> <<>>]
    ELSE [taken |-> SubSeq(ops, 1, Len(ops) - 1), left |-> <<ops[Len(ops)]>>]

DrainFirstOnly(ops) ==
    IF ops = <<>> THEN [taken |-> <<>>, left |-> <<>>]
    ELSE [taken |-> <<Head(ops)>>, left |-> Tail(ops)]

DrainNewestFirst(ops) ==
    [taken |-> [i \in DOMAIN ops |-> ops[Len(ops) + 1 - i]], left |-> <<>>]

\* ops.drain(..): every element, front to back; the Vec is left empty
Drain(ops) == [taken |-> ops, left |-> <<>>]

ApplyOpFillsSuggestions(u, op) ==
    LET v == [u EXCEPT !.applied = Append(u.applied, op)]
    IN CASE op.op = "Response" ->
              [v EXCEPT !.chat_messages = Append(u.chat_messages,
                  [content |-> op.arg, is_user |-> FALSE, model_used |-> "model_name"])]
         [] op.op = "Analytics" -> [v EXCEPT !.analytics = op.arg]
         [] op.op = "RagSuggestions" ->
              [v EXCEPT !.rag_suggestions =
                  IF u.rag_suggestions = <<>> THEN op.arg.rows ELSE @]
         [] op.op = "LoadingComplete" -> [v EXCEPT !.is_loading = FALSE]
         [] op.op = "Error" ->
              [v EXCEPT !.chat_messages = Append(u.chat_messages,
                  [content |-> op.arg, is_user |-> FALSE, model_used |-> "Error"]),
                        !.is_loading = FALSE]

\* ui.rs 244-277: one arm of the match
ApplyOp(u, op) ==
    LET v == [u EXCEPT !.applied = Append(u.applied, op)]
    IN CASE op.op = "Response" ->
              [v EXCEPT !.chat_messages = Append(u.chat_messages,
                  [content |-> op.arg, is_user |-> FALSE, model_used |-> "model_name"])]
         [] op.op = "Analytics" -> [v EXCEPT !.analytics = op.arg]
         [] op.op = "RagSuggestions" -> [v EXCEPT !.rag_suggestions = op.arg.rows]
         [] op.op = "LoadingComplete" -> [v EXCEPT !.is_loading = FALSE]
         [] op.op = "Error" ->
              [v EXCEPT !.chat_messages = Append(u.chat_messages,
                  [content |-> op.arg, is_user |-> FALSE, model_used |-> "Error"]),
                        !.is_loading = FALSE]

\* main.rs 465-481: one arm of the match
ApplyOpMain(u, op) ==
    LET v == [u EXCEPT !.applied = Append(u.applied, op)]
    IN CASE op.op = "Response" -> [v EXCEPT !.output_text = op.arg]
         [] op.op = "Analytics" -> [v EXCEPT !.analytics = op.arg]
         [] op.op = "RagSuggestions" -> [v EXCEPT !.rag_suggestions = op.arg.rows]
         [] op.op = "LoadingComplete" -> [v EXCEPT !.is_loading = FALSE]
         [] op.op = "Error" -> v

\* for op in ops.drain(..) { match op { .. } }
RECURSIVE ApplyAll(_, _)
ApplyAll(u, ops) ==
    IF ops = <<>> THEN u
    ELSE ApplyAll(IF build = "ui" THEN ApplyOp(u, Head(ops))
                  ELSE ApplyOpMain(u, Head(ops)), Tail(ops))

DrainedWithoutLock ==
    LET u == [chat_messages |-> chat_messages, output_text |-> output_text,
              analytics |-> analytics, rag_suggestions |-> rag_suggestions,
              is_loading |-> is_loading, applied |-> applied]
    IN [u |-> ApplyAll(u, Drain(pending_operations).taken),
        ops |-> Drain(pending_operations).left]

\* What the frame's drain leaves behind: try_lock() fails while a task
\* holds the guard, and then nothing is touched
Drained ==
    LET u == [chat_messages |-> chat_messages, output_text |-> output_text,
              analytics |-> analytics, rag_suggestions |-> rag_suggestions,
              is_loading |-> is_loading, applied |-> applied]
    IN IF lock = 0
       THEN [u |-> ApplyAll(u, Drain(pending_operations).taken),
             ops |-> Drain(pending_operations).left]
       ELSE [u |-> u, ops |-> pending_operations]

\* ui.rs 194-218: the guard of update_rag_suggestions
RagGuardUi(rag_on) ==
    /\ rag_on
    /\ ~TrimIsEmpty(input_text)
    /\ input_text.len > RagMinLen
    /\ rag_system

\* main.rs 417-440
RagGuardMain(rag_on) ==
    /\ rag_on
    /\ ~TrimIsEmpty(input_text)
    /\ rag_system

\* UPDATE_COUNTER += 1.  The counter is a u32; it stays below MaxChanges + 2
\* here, far from the width where the addition overflows.
Bump(n) == n + 1

\* ui.rs 285-299
debounced_rag_update ==
    IF LAST_INPUT # input_text
    THEN /\ LAST_INPUT' = input_text
         /\ UPDATE_COUNTER' = Bump(UPDATE_COUNTER)
         /\ tasks' = IF Bump(UPDATE_COUNTER) % DebounceEvery = 0 /\ RagGuardUi(enable_rag)
                     THEN SpawnRag(tasks, input_text)
                     ELSE tasks
    ELSE UNCHANGED <<LAST_INPUT, UPDATE_COUNTER, tasks>>

\* main.rs 485-502
debounced_rag_update_main ==
    IF /\ ~TrimIsEmpty(input_text) /\ enable_rag /\ input_text.len > RagMinLen
       /\ LAST_INPUT # input_text
    THEN /\ LAST_INPUT' = input_text
         /\ UPDATE_COUNTER' = Bump(UPDATE_COUNTER)
         /\ tasks' = IF Bump(UPDATE_COUNTER) % DebounceEvery = 0 /\ RagGuardMain(enable_rag)
                     THEN SpawnRag(tasks, input_text)
                     ELSE tasks
    ELSE UNCHANGED <<LAST_INPUT, UPDATE_COUNTER, tasks>>

\* what a frame adds to the history
FrameSeen ==
    /\ last_frame' =
         IF lock # 0
         THEN IF pending_operations # <<>> THEN "skipped" ELSE "idle"
         ELSE IF last_frame = "skipped" THEN "caught_up" ELSE "idle"
    /\ prev_input' = input_text
    /\ changes' = IF input_text # prev_input THEN changes + 1 ELSE changes
    /\ seen' = IF input_text # prev_input THEN seen \cup {input_text} ELSE seen

\* ui.rs 241-283: the top of every frame
check_async_updates ==
    /\ build = "ui"
    /\ chat_messages' = Drained.u.chat_messages
    /\ analytics' = Drained.u.analytics
    /\ rag_suggestions' = Drained.u.rag_suggestions
    /\ is_loading' = Drained.u.is_loading
    /\ applied' = Drained.u.applied
    /\ pending_operations' = Drained.ops
    /\ debounced_rag_update
    /\ FrameSeen
    /\ UNCHANGED <<schema, lastCall, build, limits, rag_system, enable_rag, input_text, output_text,
                   lock, storeState, pushed>>

\* main.rs 462-503
check_async_updates_main ==
    /\ build = "main"
    /\ output_text' = Drained.u.output_text
    /\ analytics' = Drained.u.analytics
    /\ rag_suggestions' = Drained.u.rag_suggestions
    /\ is_loading' = Drained.u.is_loading
    /\ applied' = Drained.u.applied
    /\ pending_operations' = Drained.ops
    /\ debounced_rag_update_main
    /\ FrameSeen
    /\ UNCHANGED <<schema, lastCall, build, limits, rag_system, enable_rag, input_text, chat_messages,
                   lock, storeState, pushed>>

\* eframe calls update(), and with it check_async_updates, before any
\* widget is shown: no widget acts before the first frame
Shown == last_frame # "none"

\* the user may still change the input: the bound on observed changes
CanChangeTo(v) == v = prev_input \/ changes < limits.changes

\* the text the user types next: one never typed before
FreshText == LongText(Cardinality(seen \cap LongTexts) + 1)

\* the TextEdit widget (ui.rs 667, main.rs 647): the user types a new text
\* or deletes the input; the Clear Input button (main.rs 656)
EditInput ==
    /\ Shown
    /\ \E v \in {EmptyText, FreshText} :
        /\ v # input_text
        /\ CanChangeTo(v)
        /\ input_text' = v
    /\ UNCHANGED <<schema, lastCall, build, limits, rag_system, enable_rag, is_loading, chat_messages,
                   output_text, analytics, rag_suggestions, pending_operations,
                   lock, tasks, debounceState, storeState, pushed, applied,
                   frameHistory>>

\* ui.rs 102-170, up to the spawn
send_message ==
    /\ build = "ui"
    /\ Shown
    /\ ~(is_loading \/ TrimIsEmpty(input_text))
    /\ Len(tasks) < limits.tasks
    /\ CanChangeTo(EmptyText)
    /\ chat_messages' = Append(chat_messages,
           [content |-> input_text, is_user |-> TRUE, model_used |-> ""])
    /\ is_loading' = TRUE
    /\ tasks' = Spawn(tasks, "chat", input_text)
    /\ input_text' = EmptyText
    /\ UNCHANGED <<schema, lastCall, build, limits, rag_system, enable_rag, output_text, analytics,
                   rag_suggestions, pending_operations, lock, debounceState,
                   storeState, pushed, applied, frameHistory>>

\* main.rs 333-352: final_prompt.trim().is_empty(), with no file loaded
FinalPromptIsBlank ==
    IF enable_rag /\ rag_suggestions # <<>> THEN FALSE ELSE TrimIsEmpty(input_text)

\* main.rs 328-415, up to the spawn
ask_ollama ==
    /\ build = "main"
    /\ Shown
    /\ ~is_loading
    /\ ~FinalPromptIsBlank
    /\ Len(tasks) < limits.tasks
    /\ is_loading' = TRUE
    /\ output_text' = GeneratingText
    /\ tasks' = Spawn(tasks, "chat", input_text)
    /\ UNCHANGED <<schema, lastCall, build, limits, rag_system, enable_rag, input_text, chat_messages,
                   analytics, rag_suggestions, pending_operations, lock,
                   debounceState, storeState, pushed, applied, frameHistory>>

\* ui.rs 220-239 (analytics_engine is Some exactly when rag_system is),
\* main.rs 442-460
update_analytics ==
    /\ Shown
    /\ rag_system
    /\ Len(tasks) < limits.tasks
    /\ tasks' = Spawn(tasks, "analytics", NoText)
    /\ UNCHANGED <<schema, lastCall, build, limits, rag_system, uiState, pending_operations, lock,
                   debounceState, storeState, pushed, applied, frameHistory>>

----------------------------------------------------------------------------

\* ui.rs 58-99, main.rs 295-325: Default; RagSystem::new().ok()
\* ui.rs 58-99 (main.rs 295-325): the application as constructed
Constructed ==
    /\ build \in {"ui", "main"}
    /\ rag_system \in BOOLEAN
    /\ enable_rag = TRUE
    /\ input_text = EmptyText
    /\ is_loading = FALSE
    /\ chat_messages = <<>>
    /\ output_text = EmptyText
    /\ analytics = DefaultAnalytics
    /\ rag_suggestions = <<>>
    /\ pending_operations = <<>>
    /\ lock = 0
    /\ tasks = <<>>
    /\ LAST_INPUT = NoText
    /\ UPDATE_COUNTER = 0
    /\ call = NoCall
    /\ ret = NoCall
    /\ pushed = <<>>
    /\ applied = <<>>
    /\ last_frame = "none"
    /\ prev_input = EmptyText
    /\ changes = 0
    /\ seen = {}

\* rag.rs 15-58 on a first start: the table is created empty
EmptyStore ==
    /\ conversations = <<>>
    /\ files = {}
    /\ schema = rag_system
    /\ now = [sec |-> 0, tick |-> 0]

Init ==
    /\ limits = [tasks |-> MaxTasks, changes |-> MaxChanges]
    /\ Constructed
    /\ EmptyStore

Next ==
    \/ check_async_updates
    \/ check_async_updates_main
    \/ EditInput
    \/ send_message
    \/ ask_ollama
    \/ update_analytics
    \/ \E t \in TaskIds : send_task_generate(t)
    \/ \E t \in TaskIds : ask_task_generate(t)
    \/ \E t \in TaskIds : save_conversation_insert(t)
    \/ \E t \in TaskIds : save_as_text_file(t)
    \/ \E t \in TaskIds : rag_task_query(t)
    \/ \E t \in TaskIds : analytics_task_query(t)
    \/ \E t \in TaskIds : task_lock(t)
    \/ \E t \in TaskIds : task_push(t)

Spec == Init /\ [][Next]_vars

(* The same program under fair scheduling, with a user who stops editing   *)
(* once a frame has seen the input change (so the debounce never fires).   *)
(* Frames keep occurring; the runtime keeps running every task that can    *)
(* step.  The call to the model server is not fair: it may never return.   *)

FirstEdit == changes = 0 /\ EditInput

NextLive ==
    \/ check_async_updates
    \/ check_async_updates_main
    \/ FirstEdit
    \/ send_message
    \/ ask_ollama
    \/ update_analytics
    \/ \E t \in TaskIds : send_task_generate(t)
    \/ \E t \in TaskIds : ask_task_generate(t)
    \/ \E t \in TaskIds : save_conversation_insert(t)
    \/ \E t \in TaskIds : save_as_text_file(t)
    \/ \E t \in TaskIds : analytics_task_query(t)
    \/ \E t \in TaskIds : task_lock(t)
    \/ \E t \in TaskIds : task_push(t)

RunsOn(t) ==
    /\ t \in TaskIds
    /\ \/ save_conversation_insert(t)
       \/ save_as_text_file(t)
       \/ analytics_task_query(t)
       \/ task_lock(t)
       \/ task_push(t)

SpecLive ==
    /\ Init
    /\ [][NextLive]_vars
    /\ WF_vars(check_async_updates)
    /\ WF_vars(check_async_updates_main)
    /\ \A t \in 1..MaxTasks : WF_vars(RunsOn(t))

----------------------------------------------------------------------------
(* The program over several runs against the same ./tourist_data: the      *)
(* process may stop at any moment (its tasks die with it) and start again.  *)
(* The user types one text per run; the runs together store at most         *)
(* MaxStored exchanges.                                                     *)

init_database_recreates(exists, rows) == <<>>

\* rag.rs 30-58: CREATE TABLE IF NOT EXISTS conversations: the rows of the
\* table afterwards
init_database(exists, rows) == IF exists THEN rows ELSE <<>>

\* The process ends and is started again: Default::default() with
\* RagSystem::new().ok() (ui.rs 58-99, rag.rs 15-28); the statics of the
\* debounce start over
Restart ==
    /\ \E started \in BOOLEAN :
        /\ rag_system' = started
        /\ schema' = (schema \/ started)
        /\ conversations' = IF started THEN init_database(schema, conversations)
                            ELSE conversations
    /\ enable_rag' = TRUE
    /\ input_text' = EmptyText
    /\ is_loading' = FALSE
    /\ chat_messages' = <<>>
    /\ output_text' = EmptyText
    /\ analytics' = DefaultAnalytics
    /\ rag_suggestions' = <<>>
    /\ pending_operations' = <<>>
    /\ lock' = 0
    /\ tasks' = <<>>
    /\ LAST_INPUT' = NoText
    /\ UPDATE_COUNTER' = 0
    /\ pushed' = <<>>
    /\ applied' = <<>>
    /\ last_frame' = "none"
    /\ prev_input' = EmptyText
    /\ changes' = 0
    /\ seen' = {}
    /\ UNCHANGED <<build, limits, files, now, lastCall>>

StoreSend == now.tick < MaxStored /\ send_message
StoreAsk == now.tick < MaxStored /\ ask_ollama

NextStore ==
    \/ check_async_updates
    \/ check_async_updates_main
    \/ FirstEdit
    \/ StoreSend
    \/ StoreAsk
    \/ update_analytics
    \/ Restart
    \/ \E t \in TaskIds : send_task_generate(t)
    \/ \E t \in TaskIds : ask_task_generate(t)
    \/ \E t \in TaskIds : save_conversation_insert(t)
    \/ \E t \in TaskIds : save_as_text_file(t)
    \/ \E t \in TaskIds : analytics_task_query(t)
    \/ \E t \in TaskIds : task_lock(t)
    \/ \E t \in TaskIds : task_push(t)

SpecStore == Init /\ [][NextStore]_vars

----------------------------------------------------------------------------
(* The store functions called directly, on logs and queries drawn from     *)
(* small sets.  The log is one an earlier run left behind; nothing else    *)
(* runs.                                                                   *)

Hello == <<"h", "e", "l", "l", "o">>
World == <<"w", "o", "r", "l", "d">>
Goodbye == <<"g", "o", "o", "d", "b", "y", "e">>
Moon == <<"m", "o", "o", "n">>
There == <<"t", "h", "e", "r", "e">>
Friend == <<"f", "r", "i", "e", "n", "d">>
HELLO == <<"H", "E", "L", "L", "O">>
H_llo == <<"h", "_", "l", "l", "o">>
Its == <<"i", "t", "'", "s">>

\* a typed text: its words with one space between them
TextOf(n, ws) == [id |-> n, len |-> Len(Chars(ws)), blank |-> FALSE, words |-> ws]

HelloWorld == TextOf(51, <<Hello, World>>)
GoodbyeMoon == TextOf(52, <<Goodbye, Moon>>)
ShoutedHello == TextOf(53, <<HELLO, Moon>>)
HelloThereFriend == TextOf(54, <<Hello, There, Friend>>)
FourthWordHello == TextOf(55, <<There, Friend, There, Hello>>)
WildcardHello == TextOf(56, <<H_llo>>)
ItsThere == TextOf(57, <<Its, There>>)
FriendOnly == TextOf(58, <<Friend>>)

Queries == {EmptyText, BlankText, HelloThereFriend, FourthWordHello,
            WildcardHello, ItsThere, FriendOnly}

\* the clock when the functions are called: the second day, some seconds in
CallTime == [sec |-> SecondsPerDay + MaxRows + 1, tick |-> MaxRows + 1]

\* the k-th of the values a column takes in turn, for a log of any length
Cycled(values, k) == values[((k - 1) % Len(values)) + 1]

\* the k-th stored row: the first was stored the day before, the others today
StoredPrompts == <<HelloWorld, GoodbyeMoon, ShoutedHello, HelloWorld>>
StoredModels == <<"llama2", ModelName, ModelName, "llama2">>
StoredTimes == <<100, 250, 250, 41>>
StoredRow(k) ==
    [id |-> k,
     timestamp |-> [sec |-> IF k = 1 THEN k ELSE SecondsPerDay + k, tick |-> k],
     prompt |-> Cycled(StoredPrompts, k), response |-> ReplyText,
     model_used |-> Cycled(StoredModels, k),
     response_time_ms |-> Cycled(StoredTimes, k),
     by |-> 0]

Logs == {[k \in 1..n |-> StoredRow(k)] : n \in 0..MaxRows}

InitCalls ==
    /\ build \in {"ui", "main"}
    /\ limits = [tasks |-> MaxTasks, changes |-> MaxChanges]
    /\ rag_system = TRUE
    /\ enable_rag = TRUE
    /\ input_text = EmptyText
    /\ is_loading = FALSE
    /\ chat_messages = <<>>
    /\ output_text = EmptyText
    /\ analytics = DefaultAnalytics
    /\ rag_suggestions = <<>>
    /\ pending_operations = <<>>
    /\ lock = 0
    /\ tasks = <<>>
    /\ LAST_INPUT = NoText
    /\ UPDATE_COUNTER = 0
    /\ conversations \in Logs
    /\ files = {[name |-> FileName(conversations[i]), by |-> 0] : i \in DOMAIN conversations}
    /\ schema = TRUE
    /\ call = NoCall
    /\ ret = NoCall
    /\ now = CallTime
    /\ pushed = <<>>
    /\ applied = <<>>
    /\ last_frame = "none"
    /\ prev_input = EmptyText
    /\ changes = 0
    /\ seen = {}

untouched == <<build, limits, rag_system, uiState, pending_operations, lock, tasks,
               debounceState, storeState, schema, pushed, applied, frameHistory>>

\* rag.find_similar_responses(&prompt, limit).await
CallFind ==
    /\ \E q \in Queries, limit \in 0..MaxLimit, storage_ok \in BOOLEAN :
        /\ call' = [fn |-> "find_similar_responses", prompt |-> q,
                    limit |-> limit, storage_ok |-> storage_ok]
        /\ ret' = find_similar_responses(conversations, q, limit, storage_ok)
    /\ UNCHANGED untouched

\* rag.create_rag_context(&suggestions, &prompt), the suggestions being
\* the newest rows of the log
CallContext ==
    /\ \E n \in 0..MaxLimit, q \in Queries :
        LET suggestions == Take(NewestFirst(Range(conversations)), n)
        IN /\ call' = [fn |-> "create_rag_context", suggestions |-> suggestions,
                       prompt |-> q]
           /\ ret' = create_rag_context(suggestions, q)
    /\ UNCHANGED untouched

\* analytics_engine.get_analytics().await
CallAnalytics ==
    /\ \E storage_ok \in BOOLEAN, row \in QueryRowOutcomes(conversations) :
        /\ call' = [fn |-> "get_analytics", storage_ok |-> storage_ok,
                    row |-> row]
        /\ ret' = get_analytics(conversations, storage_ok, row)
    /\ UNCHANGED untouched

NextCalls ==
    \/ CallFind
    \/ CallContext
    \/ CallAnalytics

SpecCalls == InitCalls /\ [][NextCalls]_vars

----------------------------------------------------------------------------
(* Items by their producer *)

RECURSIVE ItemsBy(_, _)
ItemsBy(items, t) ==
    IF items = <<>> THEN <<>>
    ELSE IF Head(items).by = t THEN <<Head(items)>> \o ItemsBy(Tail(items), t)
    ELSE ItemsBy(Tail(items), t)

Ops(items) == [i \in DOMAIN items |-> items[i].op]

ChatTasks == Spawned("chat")
Frame == check_async_updates \/ check_async_updates_main

----------------------------------------------------------------------------
\* C1: every item pushed onto pending_operations is applied exactly once,
\* whatever the interleaving of producers and frames: at every moment the
\* items applied so far followed by the items still queued are exactly the
\* items pushed so far, in push order (nothing lost, nothing twice).
C1_NoLossNoDuplicate == applied \o pending_operations = pushed

\* a frame was skipped with items queued, the next frame applied them, and
\* by now both producers' items have been applied
C1_Witness ==
    /\ last_frame = "caught_up"
    /\ pending_operations = <<>>
    /\ \E i, j \in DOMAIN applied : applied[i].by # applied[j].by

\* C2: a drain that gets the lock applies every queued item in push order
\* and leaves the queue empty; a drain of an empty queue applies nothing.
C2_DrainExhaustiveInOrder ==
    [][(Frame /\ lock = 0) =>
          /\ pending_operations' = <<>>
          /\ applied' = applied \o pending_operations]_vars

\* three or more items were queued and all of them have been applied, in order
C2_Witness ==
    /\ lock = 0
    /\ pending_operations = <<>>
    /\ Len(applied) >= 3
    /\ applied = pushed

\* C3: a chat task posts exactly two items, a Response or an Error and then
\* LoadingComplete, and nothing before or after them.
C3_TwoMarkerProtocol ==
    \A t \in ChatTasks :
        LET mine == ItemsBy(pushed, t)
        IN IF tasks[t].pc = "done"
           THEN /\ Len(mine) = 2
                /\ mine[1].op \in {"Response", "Error"}
                /\ mine[2].op = "LoadingComplete"
           ELSE mine = <<>>

\* one request has posted an Error and LoadingComplete, another a Response
\* and LoadingComplete
C3_Witness ==
    \E t, u \in ChatTasks :
        /\ Ops(ItemsBy(pushed, t)) = <<"Error", "LoadingComplete">>
        /\ Ops(ItemsBy(pushed, u)) = <<"Response", "LoadingComplete">>

GenerationFailed(t) == tasks[t].result \in {"request_failed", "parse_failed"}
RowsBy(t) == {i \in DOMAIN conversations : conversations[i].by = t}

\* C4: while a chat request has not yet pushed its Response or Error, no
\* drained item clears the busy flag: is_loading stays true.
C4_BusyUntilOwnResult ==
    \A t \in ChatTasks : tasks[t].pc # "done" => is_loading

\* C5: with a store, a request that received a model response has its entry
\* in the log, once, whenever its Response is queued or applied.
C5_EntryBeforeResponse ==
    rag_system =>
        \A i \in DOMAIN pushed :
            (pushed[i].op = "Response" /\ tasks[pushed[i].by].result = "ok")
                => Cardinality(RowsBy(pushed[i].by)) = 1

\* C6: a task whose save_conversation, find_similar_responses or
\* get_analytics returned an error posts an Error item.
C6_StorageErrorsPosted ==
    \A t \in TaskIds :
        (/\ tasks[t].pc = "done"
         /\ \/ tasks[t].saved = "err"
            \/ tasks[t].kind # "chat" /\ tasks[t].result = "err")
            => \E i \in DOMAIN pushed : pushed[i].by = t /\ pushed[i].op = "Error"

\* C7: a chat task whose generation call failed posts Error and then
\* LoadingComplete, and appends no entry to the store.
C7_FailedGenerationPostsError ==
    \A t \in ChatTasks :
        (tasks[t].pc = "done" /\ GenerationFailed(t))
            => /\ Ops(ItemsBy(pushed, t)) = <<"Error", "LoadingComplete">>
               /\ RowsBy(t) = {}

\* C8: a failed chat send does not leave the interface busy: while frames
\* keep occurring, once the generation call of a request has failed and its
\* items are not yet applied, is_loading eventually becomes false.
C8_FailedSendClearsBusy ==
    \A t \in 1..MaxTasks :
        (/\ t \in ChatTasks
         /\ GenerationFailed(t)
         /\ ItemsBy(applied, t) = <<>>) ~> ~is_loading

\* the failure of a request has been applied and the interface is idle again
C8_Witness ==
    \E t \in ChatTasks :
        /\ GenerationFailed(t)
        /\ ItemsBy(applied, t) # <<>>
        /\ ~is_loading

\* C9: a frame that finds the lock held applies nothing and leaves the
\* queue, is_loading, analytics, rag_suggestions and the messages as they
\* are; the items queued at that moment are applied by a later frame.
C9_SkippedFrameTouchesNothing ==
    /\ [][(Frame /\ lock # 0) =>
            UNCHANGED <<pending_operations, is_loading, analytics,
                        rag_suggestions, chat_messages, output_text,
                        applied>>]_vars
    /\ \A n \in 1..(2 * MaxTasks) :
          (last_frame = "skipped" /\ Len(pushed) = n) ~> (Len(applied) >= n)

\* a frame was skipped with items queued and the next frame applied them
C9_Witness ==
    /\ last_frame = "caught_up"
    /\ applied # <<>>
    /\ pending_operations = <<>>

RagTasks == Spawned("rag")

\* C10: from a fresh process, with the store and RAG on and nothing else
\* going on, frames that saw up to four changes of the input, each to a
\* value never seen before and longer than RagMinLen, have spawned no
\* suggestion task; the fifth such change has spawned exactly one.
C10_FifthChangeRefreshes ==
    (/\ rag_system /\ enable_rag
     /\ seen \subseteq LongTexts
     /\ Cardinality(seen) = changes
     /\ TaskIds = RagTasks)
        => /\ changes < DebounceEvery => RagTasks = {}
           /\ changes = DebounceEvery => Cardinality(RagTasks) = 1

\* C11: UPDATE_COUNTER goes up by exactly one on every frame whose input
\* differs from the last observed value (LAST_INPUT) and is left alone by
\* every other frame and by every step that is not a frame; it never goes
\* down; a suggestion task is spawned only by a frame on which the counter
\* has just become a multiple of DebounceEvery.  (Before anything was
\* observed, LAST_INPUT = None, the first frame may count or not.)
C11_CounterCountsChanges ==
    [][/\ Frame =>
            IF LAST_INPUT = NoText
            THEN UPDATE_COUNTER' \in {UPDATE_COUNTER, UPDATE_COUNTER + 1}
            ELSE UPDATE_COUNTER' = IF LAST_INPUT # input_text
                                   THEN UPDATE_COUNTER + 1
                                   ELSE UPDATE_COUNTER
       /\ ~Frame => UPDATE_COUNTER' = UPDATE_COUNTER
       /\ RagTasks' # RagTasks =>
            /\ Frame
            /\ UPDATE_COUNTER' = UPDATE_COUNTER + 1
            /\ UPDATE_COUNTER' % DebounceEvery = 0]_vars

\* the word occurs in the column, character for character
Substring(column, word) ==
    \E p \in 1..(Len(column) - Len(word) + 1) :
        \A i \in DOMAIN word : word[i] = column[p + i - 1]

\* the stored entry holds one of the first three words of the query, in its
\* prompt or in its response
HoldsWordOf(row, query) ==
    \E k \in DOMAIN Words(query) :
        /\ k <= 3
        /\ \/ Substring(Chars(Words(row.prompt)), Words(query)[k])
           \/ Substring(Chars(Words(row.response)), Words(query)[k])

Found == call.fn = "find_similar_responses" /\ call.storage_ok

\* C12: with the store reachable, find_similar_responses returns Ok with no
\* entry, not an error, when the query has no word (empty or whitespace
\* only) and when no stored entry holds a word of the query; also on an
\* empty log.
C12_NoMatchIsEmptyNotError ==
    (/\ Found
     /\ \/ Words(call.prompt) = <<>>
        \/ \A i \in DOMAIN conversations : ~HoldsWordOf(conversations[i], call.prompt))
        => ret.ok /\ ret.rows = <<>>

\* C13: with the store reachable and a query of at least one word,
\* find_similar_responses returns exactly the stored entries that hold one
\* of the first three words of the query as a substring of the prompt or of
\* the response, newest first, cut to the limit.
C13_FindsExactlySubstringMatches ==
    (Found /\ Words(call.prompt) # <<>>)
        => /\ ret.ok
           /\ ret.rows = Take(NewestFirst({conversations[i] : i \in
                                  {j \in DOMAIN conversations :
                                      HoldsWordOf(conversations[j], call.prompt)}}),
                              call.limit)

IsTxt(part) == part.lit = ""

\* the texts put into a formatted String, in order
TextsIn(parts) ==
    LET put == SelectSeq(parts, IsTxt) IN [i \in DOMAIN put |-> put[i].text]

\* prompt and response of each entry, in order
RECURSIVE PromptsAndResponses(_)
PromptsAndResponses(entries) ==
    IF entries = <<>> THEN <<>>
    ELSE <<Head(entries).prompt, Head(entries).response>>
            \o PromptsAndResponses(Tail(entries))

\* the output holds the entry as a pair labelled Q and A
HasLabelledPair(parts, entry) ==
    \E p \in 1..(Len(parts) - 3) :
        SubSeq(parts, p, p + 3) =
            <<Lit("Previous context:\nQ: "), Txt(entry.prompt),
              Lit("\nA: "), Txt(entry.response)>>

\* C14: create_rag_context returns the new message itself when no
\* suggestion is supplied; otherwise its output holds the first two
\* suggestions and no other, each as a labelled Q/A pair, in the order
\* supplied, and the new message comes last.
C14_ContextAssembly ==
    call.fn = "create_rag_context" =>
        IF call.suggestions = <<>>
        THEN ret = <<Txt(call.prompt)>>
        ELSE LET used == Take(call.suggestions, 2)
             IN /\ TextsIn(ret) = PromptsAndResponses(used) \o <<call.prompt>>
                /\ \A i \in DOMAIN used : HasLabelledPair(ret, used[i])
                /\ ret[Len(ret)] = Txt(call.prompt)

\* three suggestions were supplied and two of them were used
C14_Witness ==
    /\ call.fn = "create_rag_context"
    /\ Len(call.suggestions) = 3
    /\ Len(TextsIn(ret)) = 5

\* C20: sessions_today of a snapshot is the number of stored entries whose
\* timestamp falls on the current calendar day: k entries of today give k.
C20_SessionsTodayCountsEntries ==
    (call.fn = "get_analytics" /\ call.storage_ok)
        => ret.analytics.sessions_today =
              Cardinality({i \in DOMAIN conversations :
                              DateOf(conversations[i].timestamp) = DateOf(now)})

\* C15: the log is append-only over sends, refreshes and restarts: a step
\* never removes or changes a stored entry, and the stored ids are unique
\* and increase in append order.
C15_LogAppendOnly ==
    /\ [][/\ Len(conversations') >= Len(conversations)
          /\ \A i \in DOMAIN conversations : conversations'[i] = conversations[i]]_vars
    /\ [](\A i, j \in DOMAIN conversations :
              i < j => conversations[i].id < conversations[j].id)

\* a run has just started on a log of two exchanges
C15_Witness == Len(conversations) = 2 /\ last_frame = "none"

\* C18: starting the program again (RagSystem::new on the same directory)
\* leaves every stored entry in the log, unchanged, and the new run
\* retrieves them: the count sees all of them and a search on an entry's
\* own prompt returns it.
C18_InitIdempotentAppendsDurable ==
    [][Restart =>
          /\ conversations' = conversations
          /\ rag_system' =>
                /\ get_total_requests(conversations') = Len(conversations)
                /\ \A i \in DOMAIN conversations :
                      conversations[i] \in Range(find_similar_responses(
                          conversations', conversations[i].prompt,
                          Len(conversations), TRUE).rows)]_vars

\* a run has started with its store on a log that holds entries
C18_Witness ==
    /\ last_frame = "none"
    /\ rag_system /\ schema
    /\ conversations # <<>>

\* the entry has its row in the log
Stored(entry) ==
    \E i \in DOMAIN conversations :
        /\ conversations[i].timestamp = entry.timestamp
        /\ conversations[i].prompt = entry.prompt

\* C16: save_conversation writes the log record first and the mirror file
\* second: the insert step never touches the mirror files and, when it
\* fails, stores nothing, returns the error and skips the mirror write; the
\* mirror step runs on a stored entry, leaves the log alone and, when it
\* fails, returns the error with the record still in the log.  At every
\* moment each mirror file has its log record.
C16_RecordThenMirror ==
    /\ [][\A t \in TaskIds :
            /\ save_conversation_insert(t) =>
                  /\ files' = files
                  /\ IF conversations' = conversations
                     THEN tasks'[t].saved = "err" /\ tasks'[t].pc = "lock"
                     ELSE tasks'[t].saved = "none" /\ tasks'[t].pc = "save_mirror"
            /\ save_as_text_file(t) =>
                  /\ Stored(tasks[t].entry)
                  /\ conversations' = conversations
                  /\ tasks'[t].saved = "err" => files' = files]_vars
    /\ [](\A f \in files :
              \E i \in DOMAIN conversations : FileName(conversations[i]) = f.name)

\* the process stopped between the two writes: a run starts on a log with
\* a record that has no mirror file
C16_Witness ==
    /\ last_frame = "none"
    /\ \E i \in DOMAIN conversations :
          \A f \in files : f.name # FileName(conversations[i])

\* C17: when every append so far succeeded, there are as many mirror files
\* as log records: no append has overwritten the file of an earlier
\* exchange, also for two exchanges stamped within the same second.
C17_OneMirrorPerExchange ==
    (\A t \in ChatTasks : tasks[t].pc # "save_mirror" /\ tasks[t].saved # "err")
        => Cardinality(files) = Len(conversations)

\* C19: the suggestion query and the analytics query leave the log and the
\* mirror files as they are, whether they succeed or fail; the log changes
\* only by the insert of a chat task whose generation returned a response.
C19_QueriesNeverWrite ==
    [][/\ \A t \in TaskIds :
            (rag_task_query(t) \/ analytics_task_query(t))
                => UNCHANGED <<conversations, files>>
       /\ conversations' # conversations =>
            \E t \in ChatTasks :
                /\ tasks[t].result = "ok"
                /\ tasks[t].pc = "save_insert"
                /\ conversations' = InsertRow(conversations, tasks[t].entry)]_vars

\* an analytics query has run on a log that holds an entry, and its count
\* has been applied
C19_Witness ==
    /\ conversations # <<>>
    /\ \E t \in Spawned("analytics") : tasks[t].result = "ok" /\ tasks[t].pc = "done"
    /\ analytics.total_requests = Len(conversations)

----------------------------------------------------------------------------
(* Runs with room for a third task: a send, a refresh, another send *)

InitBusy ==
    /\ limits = [tasks |-> MaxBusyTasks, changes |-> MaxChanges]
    /\ Constructed
    /\ EmptyStore

SpecBusy == InitBusy /\ [][NextLive]_vars

----------------------------------------------------------------------------
(* Runs of typing over the log of an earlier run: two suggestion refreshes *)

\* the text the second refresh of a run asks about: the input at the tenth
\* counted frame, which in ui.rs (where the first frame counts) is the ninth
\* text typed
SecondAsked == {2 * DebounceEvery - 1, 2 * DebounceEvery}

\* an exchange of an earlier run whose prompt was the second word of text k
EarlierRow(k) ==
    [id |-> k - 2 * DebounceEvery + 2,
     timestamp |-> [sec |-> k, tick |-> k],
     prompt |-> [id |-> 60 + k, len |-> Len(Own(k)), blank |-> FALSE,
                 words |-> <<Own(k)>>],
     response |-> ReplyText, model_used |-> ModelName,
     response_time_ms |-> 250, by |-> 0]

InitTyping ==
    /\ limits = [tasks |-> MaxTasks, changes |-> MaxTyped]
    /\ Constructed
    /\ rag_system
    /\ conversations = <<EarlierRow(2 * DebounceEvery - 1), EarlierRow(2 * DebounceEvery)>>
    /\ files = {[name |-> FileName(conversations[i]), by |-> 0] : i \in DOMAIN conversations}
    /\ schema = TRUE
    /\ now = [sec |-> SecondsPerDay, tick |-> 2 * DebounceEvery]

\* the user types one new text after another
Typing == EditInput /\ input_text' \in LongTexts

NextTyping ==
    \/ check_async_updates
    \/ check_async_updates_main
    \/ Typing
    \/ \E t \in TaskIds : rag_task_query(t)
    \/ \E t \in TaskIds : task_lock(t)
    \/ \E t \in TaskIds : task_push(t)

SpecTyping == InitTyping /\ [][NextTyping]_vars

----------------------------------------------------------------------------
(* Runs in which a refresh is followed statement by statement *)

NextRefresh ==
    \/ check_async_updates
    \/ check_async_updates_main
    \/ FirstEdit
    \/ send_message
    \/ ask_ollama
    \/ update_analytics
    \/ \E t \in TaskIds : send_task_generate(t)
    \/ \E t \in TaskIds : ask_task_generate(t)
    \/ \E t \in TaskIds : save_conversation_insert(t)
    \/ \E t \in TaskIds : save_as_text_file(t)
    \/ \E t \in TaskIds : get_analytics_statement(t)
    \/ \E t \in TaskIds : task_lock(t)
    \/ \E t \in TaskIds : task_push(t)

SpecRefresh == Init /\ [][NextRefresh]_vars

----------------------------------------------------------------------------
(* Claims C21..C23: the snapshot of a refresh that nothing interrupts *)

\* get_analytics was called directly and the database answered
Refreshed == call.fn = "get_analytics" /\ call.storage_ok

\* C21: with no append running concurrently, the total_requests of the
\* snapshot get_analytics returns is the number of entries appended to the
\* log so far
C21_TotalRequestsCountsEntries ==
    Refreshed => ret.ok /\ ret.analytics.total_requests = Len(conversations)

\* a refresh over a log of several entries, one of them of an earlier day
C21_Witness ==
    /\ Refreshed
    /\ Len(conversations) = MaxRows
    /\ ret.analytics.total_requests = MaxRows

\* the stored entries that name model m
Naming(m) == {i \in DOMAIN conversations : conversations[i].model_used = m}

CharCount(t) == Len(Chars(Words(t)))
StoredChars(i) == CharCount(conversations[i].prompt) + CharCount(conversations[i].response)

\* C23: total_tokens_approx is the sum over all stored entries of prompt
\* length plus response length, in characters, divided by 4 once over the
\* whole sum and truncated; it is 0 for an empty log
C23_TokensQuarterOfAllCharacters ==
    Refreshed =>
        /\ ret.analytics.total_tokens_approx =
              Sum([i \in DOMAIN conversations |-> StoredChars(i)]) \div 4
        /\ conversations = <<>> => ret.analytics.total_tokens_approx = 0

\* a log on which the quotient of the sum is not the sum of the quotients
C23_Witness ==
    /\ Refreshed
    /\ ret.analytics.total_tokens_approx >
          Sum([i \in DOMAIN conversations |-> StoredChars(i) \div 4])

----------------------------------------------------------------------------
(* Claim C24: a refresh with appends in between *)

\* the log as it was when it held k entries
LogAt(k) == SubSeq(conversations, 1, k)

\* the refreshes that ran all five statements
Refreshes == {t \in Spawned("analytics") : tasks[t].result = "ok"}

\* C24: the statistics of one get_analytics call come from independent
\* statements with no transaction around them.  An entry appended between
\* two statements is seen by the later ones only, so each statistic of a
\* snapshot is its value over the log at some moment of the refresh, a
\* later statement never sees less than an earlier one, and the moments
\* need not be the same (the witness: total_requests 0 beside the tokens
\* and the day of one entry).
C24_EachStatisticFromSomeMoment ==
    \A t \in Refreshes :
        LET a == tasks[t].snapshot
        IN \E k2, k3, k4, k5 \in 0..Len(conversations) :
            /\ a.total_requests <= k2 /\ k2 <= k3 /\ k3 <= k4 /\ k4 <= k5
            /\ a.avg_response_time = get_avg_response_time(LogAt(k2))
            /\ tasks[t].row.ok => a.most_used_model \in MostUsedModels(LogAt(k3))
            /\ ~tasks[t].row.ok => a.most_used_model = ""
            /\ a.sessions_today = get_sessions_today(LogAt(k4), DateOf(now))
            /\ a.total_tokens_approx = get_token_count(LogAt(k5))

\* a snapshot, drained into the application, that counts no request and
\* yet the tokens and the day of a stored entry
C24_Witness ==
    /\ \E i \in DOMAIN applied : applied[i].op = "Analytics"
    /\ analytics.total_requests = 0
    /\ analytics.sessions_today = 1
    /\ analytics.total_tokens_approx > 0

----------------------------------------------------------------------------
(* Claim C25: the order of the queue across producers *)

\* the texts the items of a queue put into the chat, in queue order
RECURSIVE MessagesOf(_)
MessagesOf(items) ==
    IF items = <<>> THEN <<>>
    ELSE IF Head(items).op \in {"Response", "Error"}
    THEN <<Head(items).arg>> \o MessagesOf(Tail(items))
    ELSE MessagesOf(Tail(items))

\* the last item of a kind in a queue, or none
LastOf(items, kind) ==
    LET at == {i \in DOMAIN items : items[i].op = kind}
    IN IF at = {} THEN [op |-> "none"]
       ELSE items[CHOOSE i \in at : \A j \in at : j <= i]

Contents(messages) == [i \in DOMAIN messages |-> messages[i].content]

\* C25: the queue orders the items of distinct producers by the moment of
\* their push, not by the moment their action was issued: a task that
\* pushes puts its items behind everything queued, whichever task was
\* spawned first, and a drain applies the queue front to back (the chat
\* shows the texts in queue order, the last snapshot queued is the one kept)
C25_QueueOrderIsPushOrder ==
    [][/\ \A t \in TaskIds :
            (tasks[t].pc = "held" /\ tasks'[t].pc = "done")
                => pending_operations' = pending_operations \o tasks[t].items
       /\ (Frame /\ lock = 0) =>
            /\ build = "ui" =>
                 Contents(chat_messages') =
                     Contents(chat_messages) \o MessagesOf(pending_operations)
            /\ LET last == LastOf(pending_operations, "Analytics")
               IN analytics' = IF last.op = "none" THEN analytics ELSE last.arg]_vars

\* the refresh was issued first and the chat send second, the chat task
\* pushed first, and the three items were applied in that order
C25_Witness ==
    /\ Len(tasks) = 2
    /\ tasks[1].kind = "analytics" /\ tasks[2].kind = "chat"
    /\ applied = pushed
    /\ Ops(applied) = <<"Response", "LoadingComplete", "Analytics">>
    /\ applied[1].by = 2 /\ applied[3].by = 1

----------------------------------------------------------------------------
(* Claim C27: one generation at a time *)

\* the chat tasks that have not posted their items yet
InFlight == {t \in ChatTasks : tasks[t].pc # "done"}

\* C27: at most one chat generation task is in flight at any time: no
\* second one is spawned before the first has posted its items, whatever
\* other results are drained in between
C27_OneGenerationInFlight == Cardinality(InFlight) <= 1

----------------------------------------------------------------------------
(* Claim C28: the two items of a chat request travel together *)

\* where the items of task t stand in a queue
PlacesOf(items, t) == {i \in DOMAIN items : items[i].by = t}

\* the items of t are absent from the queue, or they are its content item
\* and its LoadingComplete side by side
TogetherIn(items, t) ==
    \/ PlacesOf(items, t) = {}
    \/ \E i \in DOMAIN items :
          /\ PlacesOf(items, t) = {i, i + 1}
          /\ items[i].op \in {"Response", "Error"}
          /\ items[i + 1].op = "LoadingComplete"

\* C28: the content item of a chat request and its LoadingComplete are
\* pushed under one acquisition of the lock: in every state of the queue
\* they are adjacent, with no item of another producer between them; every
\* drain applies both or neither; and a frame that applies the items of a
\* request does not leave the busy flag set
C28_ContentAndMarkerTogether ==
    /\ [](\A t \in ChatTasks :
            /\ TogetherIn(pending_operations, t)
            /\ TogetherIn(applied, t))
    /\ [][\A t \in ChatTasks :
            (Frame /\ PlacesOf(applied', t) # PlacesOf(applied, t))
                => ~is_loading']_vars

\* the pair of a chat request is queued next to the item of a refresh
C28_Witness ==
    \E t \in ChatTasks :
        /\ Len(pending_operations) = 3
        /\ PlacesOf(pending_operations, t) = {2, 3}
        /\ pending_operations[1].op = "Analytics"

----------------------------------------------------------------------------
(* Claim C29: which suggestions are kept *)

\* the suggestion refreshes whose result has been applied
AppliedRefreshes == {t \in RagTasks : \E i \in DOMAIN applied :
                        applied[i].by = t /\ applied[i].op = "RagSuggestions"}

\* C29 as stated: when two suggestion refreshes were outstanding and both
\* have posted and been drained, rag_suggestions holds the result of the
\* one issued last, whatever the order in which the two completed
C29_LastIssuedWins ==
    \A t, u \in AppliedRefreshes :
        (t < u /\ \A w \in AppliedRefreshes : w <= u)
            => rag_suggestions = tasks[u].items[1].arg.rows

\* C29 amended: rag_suggestions holds the result of the refresh whose item
\* was pushed, and so applied, last (completion order); before any result
\* has been applied it is empty
C29_LastCompletedWins ==
    LET last == LastOf(applied, "RagSuggestions")
    IN rag_suggestions = IF last.op = "none" THEN <<>> ELSE last.arg.rows

\* two refreshes with different results were applied, the one issued first
\* after the one issued second
C29_Witness ==
    \E t, u \in AppliedRefreshes :
        /\ t < u
        /\ tasks[t].items[1].arg.rows # tasks[u].items[1].arg.rows
        /\ LastOf(applied, "RagSuggestions").by = t

----------------------------------------------------------------------------
(* Claim C30: the lock is released and the queue is emptied *)

\* C30: a producer holds the lock only for its pushes and does not suspend
\* while holding it (the holder is a task at its pushes), so the lock is
\* always released again and a task waiting for it gets to push; and, with
\* frames going on, every item pushed is drained and applied in the end
C30_LockReleasedItemsDrained ==
    /\ [](lock # 0 => lock \in TaskIds /\ tasks[lock].pc = "held")
    /\ (lock # 0) ~> (lock = 0)
    /\ \A t \in 1..MaxTasks :
          (t \in TaskIds /\ tasks[t].pc = "lock")
              ~> (t \in TaskIds /\ tasks[t].pc = "done")
    /\ \A n \in 1..(2 * MaxTasks) :
          (Len(pushed) >= n) ~> (Len(applied) >= n)

\* one task holds the lock while another waits for it
C30_Witness ==
    \E t, u \in TaskIds :
        /\ lock = t /\ tasks[t].pc = "held"
        /\ tasks[u].pc = "lock"

====
